---- MODULE Spec2Model ----
(***************************************************************************)
(* webtranscat (src/src/main.rs): main() connects one WebTransport         *)
(* session, spawns the datagram task, the unidirectional-stream task and   *)
(* (unless --unidirectional) the stdin task, and returns as soon as        *)
(* select_all reports one finished JoinHandle.                          *)
(*                                                                         *)
(* Every .await of the source is one step of the task that makes it.  The  *)
(* peer, the session, local input and local output are the environment:    *)
(* what they deliver is chosen nondeterministically inside the step that   *)
(* consumes it.  Local output either accepts every write of a run or, as a  *)
(* pipe whose reader is gone, refuses every one of them.                   *)
(***************************************************************************)
EXTENDS Integers, Sequences, FiniteSets, TLC

(* ---------------------------- bounds ----------------------------------- *)
MaxMessages == 2       \* datagrams, streams and input lines delivered in one run
MaxChunks == 2         \* chunks the peer writes on one stream

(* ---------------------------- bytes ------------------------------------ *)
NL == 10               \* b"\n"

DatagramPayloads == {<<97>>, <<98, NL>>}
\* the k-th chunk the peer writes on a stream: "ab", "cd", "ef", ...
ChunkAt(k) == <<95 + 2 * k, 96 + 2 * k>>
\* " h \n", and a line holding 0xFF, which is never valid UTF-8
InputLines == {<<32, 104, 32, NL>>, <<255, NL>>}

VARIABLES
    unidirectional,  \* args.unidirectional
    one_message,     \* args.one_message
    mainPc,          \* position of main()
    exitCode,        \* -1 while main runs, then 0 (Ok) or 1 (Err)
    winner,          \* index select_all returned, -1 if none
    sessOpen,        \* the session is alive
    stdoutOk,        \* local output accepts writes
    out,             \* chunks that reached local output, in order
    dgPc,            \* position of the datagram task
    dgData,          \* `data` of the datagram task
    dgRecv,          \* payloads read_datagram returned, in order
    dgEnd,           \* why the datagram task left its loop
    stPc,            \* position of the stream task
    stBuf,           \* bytes read_to_end has collected / `data`
    stStreams,       \* accepted streams: chunks read_to_end holds, and its result
    stEnd,           \* why the stream task left its loop
    inPc,            \* position of the stdin task
    linesRead,       \* read_line calls that returned a line
    line,            \* `line` of the stdin task
    rejected,        \* the line read_line refused as not valid UTF-8, <<>> if none
    sent,            \* send_datagram calls: bytes and result
    inEnd,           \* why the stdin task left its loop
    first            \* the task that finished first, "none" before

cfgVars == <<unidirectional, one_message>>
mainVars == <<mainPc, exitCode, winner>>
envVars == <<sessOpen, stdoutOk>>
dgVars == <<dgPc, dgData, dgRecv, dgEnd>>
stVars == <<stPc, stBuf, stStreams, stEnd>>
inVars == <<inPc, linesRead, line, rejected, sent, inEnd>>
vars == <<cfgVars, mainVars, envVars, out, dgVars, stVars, inVars, first>>

(* ---------------------------- helpers ---------------------------------- *)
\* char::is_whitespace restricted to the bytes of the model
IsWhitespace(b) == b \in {9, 10, 11, 12, 13, 32}

\* str::trim_end: drop every trailing whitespace character
RECURSIVE TrimEnd(_)
TrimEnd(s) ==
    IF s = <<>> THEN <<>>
    ELSE IF IsWhitespace(s[Len(s)]) THEN TrimEnd(SubSeq(s, 1, Len(s) - 1))
    ELSE s

\* read_line fails with InvalidData when the line is not valid UTF-8
ValidUtf8(s) == \A i \in 1..Len(s) : s[i] < 128

\* Vec::extend of read_to_end: the buffer grows by each chunk in turn
RECURSIVE Concat(_)
Concat(chunks) ==
    IF chunks = <<>> THEN <<>>
    ELSE chunks[1] \o Concat(Tail(chunks))

\* io::stdout().write_all(bytes): best effort, the result is dropped
WriteAll(src, id, kind, bytes) ==
    IF stdoutOk
    THEN Append(out, [src |-> src, id |-> id, kind |-> kind, bytes |-> bytes])
    ELSE out

Running == mainPc # "exited"

\* what the peer and local input have delivered so far
Delivered == Len(dgRecv) + Len(stStreams) + linesRead

(* ---------------------------- Init ------------------------------------- *)
Init ==
    /\ unidirectional \in BOOLEAN
    /\ one_message \in BOOLEAN
    /\ mainPc = "create_client"
    /\ exitCode = -1
    /\ winner = -1
    /\ sessOpen = FALSE
    /\ stdoutOk \in BOOLEAN
    /\ out = <<>>
    /\ dgPc = "unspawned" /\ dgData = <<>> /\ dgRecv = <<>> /\ dgEnd = "none"
    /\ stPc = "unspawned" /\ stBuf = <<>> /\ stStreams = <<>> /\ stEnd = "none"
    /\ inPc = "unspawned"
    /\ linesRead = 0
    /\ line = <<>>
    /\ rejected = <<>>
    /\ sent = <<>>
    /\ inEnd = "none"
    /\ first = "none"

(* ---------------------------- main ------------------------------------- *)
\* injected fault: a startup error is dropped and main returns Ok(())
StartupFailAsSuccess ==
    /\ mainPc' = "exited"
    /\ exitCode' = 0
    /\ winner' = -1

\* `?` on a startup Result: Err leaves main at once
StartupFail ==
    /\ mainPc' = "exited"
    /\ exitCode' = 1
    /\ winner' = -1

\* let client = create_client(&args).await?;
CreateClient ==
    /\ mainPc = "create_client"
    /\ \/ /\ mainPc' = "connect"
          /\ UNCHANGED <<exitCode, winner>>
       \/ StartupFail
    /\ UNCHANGED <<cfgVars, envVars, out, dgVars, stVars, inVars, first>>

\* let session = client.connect(args.url.clone()).await?;
Connect ==
    /\ mainPc = "connect"
    /\ \/ /\ mainPc' = "spawn_datagram"
          /\ sessOpen' = TRUE
          /\ UNCHANGED <<exitCode, winner>>
       \/ /\ StartupFail
          /\ UNCHANGED sessOpen
    /\ UNCHANGED <<cfgVars, stdoutOk, out, dgVars, stVars, inVars, first>>

\* handles.push(tokio::spawn(... datagram loop ...))
SpawnDatagram ==
    /\ mainPc = "spawn_datagram"
    /\ mainPc' = "spawn_stream"
    /\ dgPc' = "read_datagram"
    /\ UNCHANGED <<cfgVars, exitCode, winner, envVars, out, dgData, dgRecv, dgEnd,
                   stVars, inVars, first>>

\* handles.push(tokio::spawn(... stream loop ...))
SpawnStream ==
    /\ mainPc = "spawn_stream"
    /\ mainPc' = "spawn_stdin"
    /\ stPc' = "accept_uni"
    /\ UNCHANGED <<cfgVars, exitCode, winner, envVars, out, dgVars, stBuf, stStreams,
                   stEnd, inVars, first>>

\* injected fault: the stdin task is spawned whatever the flag says
StdinSpawnedAlways == TRUE

\* if !args.unidirectional { handles.push(tokio::spawn(... stdin loop ...)) }
StdinSpawned == ~unidirectional

SpawnStdin ==
    /\ mainPc = "spawn_stdin"
    /\ mainPc' = "select_all"
    /\ inPc' = IF StdinSpawned THEN "read_line" ELSE inPc
    /\ UNCHANGED <<cfgVars, exitCode, winner, envVars, out, dgVars, stVars, linesRead,
                   line, rejected, sent, inEnd, first>>

\* the handles vector, in push order
Handles ==
    IF StdinSpawned THEN <<"datagram", "stream", "stdin">> ELSE <<"datagram", "stream">>

Pc(task) ==
    CASE task = "datagram" -> dgPc
      [] task = "stream" -> stPc
      [] task = "stdin" -> inPc

\* injected fault: main waits for every task (join_all), not for the first
ReadyWhenAllDone(i) == \A j \in 1..Len(Handles) : Pc(Handles[j]) = "done"

\* injected fault: a handle counts as ready as soon as its task was spawned
ReadyOnSpawn(i) == Pc(Handles[i]) # "unspawned"

\* a JoinHandle is ready once its task has returned
Ready(i) == Pc(Handles[i]) = "done"

\* select_all polls the handles in order and yields the first ready one
SelectAllIndex ==
    CHOOSE i \in 1..Len(Handles) : Ready(i) /\ \A j \in 1..(i - 1) : ~Ready(j)

\* what the JoinHandle yields: the loops have no failing exit, so Ok(())
JoinResult(task) == "Ok"

\* result?; Ok(())
ExitCodeOf(result) == IF result = "Ok" THEN 0 ELSE 1

\* let (result, _index, _remaining) = select_all(handles).await; result?; Ok(())
SelectAll ==
    /\ mainPc = "select_all"
    /\ \E i \in 1..Len(Handles) : Ready(i)
    /\ winner' = SelectAllIndex - 1
    /\ exitCode' = ExitCodeOf(JoinResult(Handles[SelectAllIndex]))
    /\ mainPc' = "exited"
    /\ UNCHANGED <<cfgVars, envVars, out, dgVars, stVars, inVars, first>>

Main == CreateClient \/ Connect \/ SpawnDatagram \/ SpawnStream \/ SpawnStdin \/ SelectAll

\* a task returns: its JoinHandle becomes ready
Finish(task, pcNext) ==
    first' = IF pcNext = "done" /\ first = "none" THEN task ELSE first

(* ---------------------------- datagram task ---------------------------- *)
\* injected fault: the datagram loop retries after a failed read_datagram
DatagramAfterErrRetry == "read_datagram"

\* Err(e) => { error!("Datagram error: {e}"); break; }
DatagramAfterErr == "done"

\* injected fault: the datagram loop ends after every written message
DatagramAfterFlushBreak == "done"

\* if one_message { break; }
DatagramAfterFlush == IF one_message THEN "done" ELSE "read_datagram"

\* injected fault: the datagram task writes no newline
DatagramNewlineMissing == <<>>

\* b"\n" of the datagram task
DatagramNewline == <<NL>>

\* session.read_datagram().await => Ok(data)
DatagramReadOk ==
    /\ Running /\ dgPc = "read_datagram"
    /\ sessOpen
    /\ Delivered < MaxMessages
    /\ \E d \in DatagramPayloads :
          /\ dgData' = d
          /\ dgRecv' = Append(dgRecv, d)
    /\ dgPc' = "write_data"
    /\ UNCHANGED <<cfgVars, mainVars, envVars, out, dgEnd, stVars, inVars, first>>

\* session.read_datagram().await => Err(e)
DatagramReadErr ==
    /\ Running /\ dgPc = "read_datagram"
    /\ ~sessOpen
    /\ dgPc' = DatagramAfterErr
    /\ dgEnd' = "error"
    /\ Finish("datagram", dgPc')
    /\ UNCHANGED <<cfgVars, mainVars, envVars, out, dgData, dgRecv, stVars, inVars>>

\* let _ = io::stdout().write_all(&data).await;
DatagramWriteData ==
    /\ Running /\ dgPc = "write_data"
    /\ out' = WriteAll("datagram", Len(dgRecv), "data", dgData)
    /\ dgPc' = "write_nl"
    /\ UNCHANGED <<cfgVars, mainVars, envVars, dgData, dgRecv, dgEnd, stVars, inVars,
                   first>>

\* let _ = io::stdout().write_all(b"\n").await;
DatagramWriteNl ==
    /\ Running /\ dgPc = "write_nl"
    /\ out' = WriteAll("datagram", Len(dgRecv), "nl", DatagramNewline)
    /\ dgPc' = "flush"
    /\ UNCHANGED <<cfgVars, mainVars, envVars, dgData, dgRecv, dgEnd, stVars, inVars,
                   first>>

\* let _ = io::stdout().flush().await; if one_message { break; }
DatagramFlush ==
    /\ Running /\ dgPc = "flush"
    /\ dgPc' = DatagramAfterFlush
    /\ dgEnd' = IF dgPc' = "done" THEN "one_message" ELSE dgEnd
    /\ Finish("datagram", dgPc')
    /\ UNCHANGED <<cfgVars, mainVars, envVars, out, dgData, dgRecv, stVars, inVars>>

DatagramTask ==
    DatagramReadOk \/ DatagramReadErr \/ DatagramWriteData \/ DatagramWriteNl
        \/ DatagramFlush

(* ---------------------------- stream task ------------------------------ *)
\* Err(e) => { error!("Stream accept error: {e}"); break; }
StreamAfterAcceptErr == "done"

\* injected fault: with one_message set a failed read_to_end counts as the message
StreamAfterReadErrOneMessage == IF one_message THEN "done" ELSE "accept_uni"

\* injected fault: a failed read_to_end breaks out of the stream loop
StreamAfterReadErrBreak == "done"

\* Err(e) => { error!("Stream read error: {e}"); }   (no break)
StreamAfterReadErr == "accept_uni"

\* if one_message { break; }
StreamAfterFlush == IF one_message THEN "done" ELSE "accept_uni"

\* b"\n" of the stream task
StreamNewline == <<NL>>

\* injected fault: the buffer keeps only the chunk read last
BufExtendOverwrite(buf, chunk) == chunk

\* read_to_end appends each chunk it receives to its buffer
BufExtend(buf, chunk) == buf \o chunk

\* injected fault: the loop goes back to accept_uni with the read still pending
StreamAfterAcceptNext == "accept_uni"

\* match stream.read_to_end(usize::MAX).await: the read is awaited in the loop
StreamAfterAccept == "read_to_end"

SetRes(res) ==
    [stStreams EXCEPT ![Len(stStreams)].res = res]

\* session.accept_uni().await => Ok(stream)
StreamAcceptOk ==
    /\ Running /\ stPc = "accept_uni"
    /\ sessOpen
    /\ Delivered < MaxMessages
    /\ stStreams' = Append(stStreams, [chunks |-> <<>>, res |-> "pending"])
    /\ stBuf' = <<>>
    /\ stPc' = StreamAfterAccept
    /\ UNCHANGED <<cfgVars, mainVars, envVars, out, stEnd, dgVars, inVars, first>>

\* session.accept_uni().await => Err(e)
StreamAcceptErr ==
    /\ Running /\ stPc = "accept_uni"
    /\ ~sessOpen
    /\ stPc' = StreamAfterAcceptErr
    /\ stEnd' = "accept_error"
    /\ Finish("stream", stPc')
    /\ UNCHANGED <<cfgVars, mainVars, envVars, out, stBuf, stStreams, dgVars, inVars>>

\* stream.read_to_end(usize::MAX).await, still pending: one more chunk arrives
StreamReadChunk ==
    /\ Running /\ stPc = "read_to_end"
    /\ sessOpen
    /\ Len(stStreams[Len(stStreams)].chunks) < MaxChunks
    /\ LET c == ChunkAt(Len(stStreams[Len(stStreams)].chunks) + 1)
       IN /\ stBuf' = BufExtend(stBuf, c)
          /\ stStreams' = [stStreams EXCEPT ![Len(stStreams)].chunks = Append(@, c)]
    /\ UNCHANGED <<cfgVars, mainVars, envVars, out, stPc, stEnd, dgVars, inVars,
                   first>>

\* stream.read_to_end(usize::MAX).await => Ok(data): the peer closed the stream
StreamReadOk ==
    /\ Running /\ stPc = "read_to_end"
    /\ sessOpen
    /\ stStreams' = SetRes("ok")
    /\ stPc' = "write_data"
    /\ UNCHANGED <<cfgVars, mainVars, envVars, out, stBuf, stEnd, dgVars, inVars,
                   first>>

\* stream.read_to_end(usize::MAX).await => Err(e): reset, or the session died
StreamReadErr ==
    /\ Running /\ stPc = "read_to_end"
    /\ stStreams' = [stStreams EXCEPT ![Len(stStreams)] = [chunks |-> <<>>, res |-> "err"]]
    /\ stBuf' = <<>>
    /\ stPc' = StreamAfterReadErr
    /\ stEnd' = IF stPc' = "done" THEN "read_error" ELSE stEnd
    /\ Finish("stream", stPc')
    /\ UNCHANGED <<cfgVars, mainVars, envVars, out, dgVars, inVars>>

\* let _ = io::stdout().write_all(&data).await;
StreamWriteData ==
    /\ Running /\ stPc = "write_data"
    /\ out' = WriteAll("stream", Len(stStreams), "data", stBuf)
    /\ stPc' = "write_nl"
    /\ UNCHANGED <<cfgVars, mainVars, envVars, stBuf, stStreams, stEnd, dgVars, inVars,
                   first>>

\* let _ = io::stdout().write_all(b"\n").await;
StreamWriteNl ==
    /\ Running /\ stPc = "write_nl"
    /\ out' = WriteAll("stream", Len(stStreams), "nl", StreamNewline)
    /\ stPc' = "flush"
    /\ UNCHANGED <<cfgVars, mainVars, envVars, stBuf, stStreams, stEnd, dgVars, inVars,
                   first>>

\* let _ = io::stdout().flush().await; if one_message { break; }
StreamFlush ==
    /\ Running /\ stPc = "flush"
    /\ stPc' = StreamAfterFlush
    /\ stEnd' = IF stPc' = "done" THEN "one_message" ELSE stEnd
    /\ Finish("stream", stPc')
    /\ UNCHANGED <<cfgVars, mainVars, envVars, out, stBuf, stStreams, dgVars, inVars>>

StreamTask ==
    StreamAcceptOk \/ StreamAcceptErr \/ StreamReadChunk \/ StreamReadOk
        \/ StreamReadErr \/ StreamWriteData \/ StreamWriteNl \/ StreamFlush

(* ---------------------------- stdin task ------------------------------- *)
\* injected fault: a failed send_datagram breaks out of the stdin loop
StdinAfterSendErrBreak == "done"

\* if let Err(e) = session.send_datagram(...) { error!(...); }   (no break)
StdinAfterSendErr == "read_line"

\* injected fault: end-of-input does not leave the stdin loop
StdinAfterEofContinue == "read_line"

\* Ok(0) => { ...; break; }
StdinAfterEof == "done"

\* injected fault: a failed read_line is logged and the loop reads again
StdinAfterReadErrContinue == "read_line"

\* Err(e) => { error!("Error reading from stdin: {e}"); break; }
StdinAfterReadErr == "done"

RECURSIVE TrimStart(_)
TrimStart(s) ==
    IF s = <<>> THEN <<>>
    ELSE IF IsWhitespace(s[1]) THEN TrimStart(Tail(s))
    ELSE s

\* injected fault: the line is trimmed at both ends (str::trim)
SendBytesTrimBoth(l) == TrimStart(TrimEnd(l))

\* let data = line.trim_end().as_bytes();
SendBytes(l) == TrimEnd(l)

\* reader.read_line(&mut line).await => Ok(n), n > 0
StdinReadLine ==
    /\ Running /\ inPc = "read_line"
    /\ Delivered < MaxMessages
    /\ \E l \in InputLines :
          /\ ValidUtf8(l)
          /\ line' = l
    /\ linesRead' = linesRead + 1
    /\ inPc' = "send_datagram"
    /\ UNCHANGED <<cfgVars, mainVars, envVars, out, dgVars, stVars, rejected, sent,
                   inEnd, first>>

\* reader.read_line(&mut line).await => Ok(0)
StdinReadEof ==
    /\ Running /\ inPc = "read_line"
    /\ inPc' = StdinAfterEof
    /\ inEnd' = "eof"
    /\ Finish("stdin", inPc')
    /\ UNCHANGED <<cfgVars, mainVars, envVars, out, dgVars, stVars, linesRead, line,
                   rejected, sent>>

\* reader.read_line(&mut line).await => Err(e): an I/O error, or a line that is
\* not valid UTF-8
StdinReadErr ==
    /\ Running /\ inPc = "read_line"
    /\ \/ UNCHANGED rejected
       \/ /\ Delivered < MaxMessages
          /\ \E l \in InputLines :
                /\ ~ValidUtf8(l)
                /\ rejected' = l
    /\ inPc' = StdinAfterReadErr
    /\ inEnd' = "read_error"
    /\ Finish("stdin", inPc')
    /\ UNCHANGED <<cfgVars, mainVars, envVars, out, dgVars, stVars, linesRead, line,
                   sent>>

\* session.send_datagram(Bytes::from(data.to_vec()))
StdinSend ==
    /\ Running /\ inPc = "send_datagram"
    /\ \E ok \in (IF sessOpen THEN BOOLEAN ELSE {FALSE}) :
          /\ sent' = Append(sent, [line |-> line, bytes |-> SendBytes(line), ok |-> ok])
          /\ inPc' = IF ok THEN "read_line" ELSE StdinAfterSendErr
    /\ inEnd' = IF inPc' = "done" THEN "send_error" ELSE inEnd
    /\ Finish("stdin", inPc')
    /\ UNCHANGED <<cfgVars, mainVars, envVars, out, dgVars, stVars, linesRead, line,
                   rejected>>

StdinTask == StdinReadLine \/ StdinReadEof \/ StdinReadErr \/ StdinSend

(* ---------------------------- environment ------------------------------ *)
\* the peer or the network ends the session
SessionClose ==
    /\ Running /\ sessOpen
    /\ sessOpen' = FALSE
    /\ UNCHANGED <<cfgVars, mainVars, stdoutOk, out, dgVars, stVars, inVars, first>>

Environment == SessionClose

(* ---------------------------- specifications --------------------------- *)
Next == Main \/ DatagramTask \/ StreamTask \/ StdinTask \/ Environment

Spec == Init /\ [][Next]_vars

\* tokio runs a spawned task whenever it can make progress, the session reports
\* its own closure to every pending call, and main is polled once a handle is
\* ready; what the peer sends and what local input supplies is not forced
Fairness ==
    /\ WF_vars(Main)
    /\ WF_vars(DatagramReadErr)
    /\ WF_vars(StreamAcceptErr)
    /\ WF_vars(DatagramWriteData \/ DatagramWriteNl \/ DatagramFlush)
    /\ WF_vars(StreamWriteData \/ StreamWriteNl \/ StreamFlush)
    /\ WF_vars(StdinSend)

FairSpec == Spec /\ Fairness

(* ---------------------------- properties ------------------------------- *)
Tasks == {"datagram", "stream", "stdin"}

Exited == mainPc = "exited"

\* main returned from select_all (not from a failed startup)
ExitedBySelect == Exited /\ winner >= 0

\* why a task left its loop
EndOf(task) ==
    CASE task = "datagram" -> dgEnd
      [] task = "stream" -> stEnd
      [] task = "stdin" -> inEnd
      [] OTHER -> "none"

IsPrefix(a, b) == Len(a) <= Len(b) /\ a = SubSeq(b, 1, Len(a))

FromDatagram(e) == e.src = "datagram"
FromStream(e) == e.src = "stream"
IsPayload(e) == e.kind = "data"

\* what each receive task has put on local output
DgOut == SelectSeq(out, FromDatagram)
StOut == SelectSeq(out, FromStream)

\* payload writes that reached local output
NumMessages == Len(SelectSeq(out, IsPayload))

AnyDone == \E t \in Tasks : Pc(t) = "done"

C2_ErrorExitsNonZero ==
    ExitedBySelect => (exitCode = 0 <=> EndOf(first) \in {"eof", "one_message"})

\* C3: with --one-message at most one message is ever written, and a run that
\* ends on the one-message condition has written exactly one and exits 0.
C3_ExactlyOneMessage ==
    one_message =>
        /\ NumMessages <= 1
        /\ (ExitedBySelect /\ EndOf(first) = "one_message" =>
                /\ exitCode = 0
                /\ (stdoutOk => NumMessages = 1))

LastStream == stStreams[Len(stStreams)]

\* C4: a failed read_to_end sends the stream loop back to accept_uni; a failed
\* accept_uni ends the loop, which then accepts nothing more.
C4_StreamErrorPolicy ==
    /\ [][(stPc = "read_to_end" /\ LastStream'.res = "err")
            => (stPc' = "accept_uni" /\ first' = first)]_vars
    /\ [][(stEnd # "accept_error" /\ stEnd' = "accept_error") => stPc' = "done"]_vars
    /\ [][stPc = "done" => (stPc' = "done" /\ stStreams' = stStreams)]_vars
    /\ [](stEnd # "read_error")

\* the loop accepted a second stream after the first one failed to read, and
\* then ended on a failed accept
C4_Witness ==
    /\ Len(stStreams) = 2
    /\ stStreams[1].res = "err"
    /\ stEnd = "accept_error" /\ stPc = "done"

\* C5: a failed send_datagram never ends the stdin loop: the loop goes back to
\* read_line, and every line read gets its own send attempt.
C5_SendFailureContinues ==
    /\ [][(inPc = "send_datagram" /\ inPc' # "send_datagram") => inPc' = "read_line"]_vars
    /\ [](inEnd \in {"none", "eof", "read_error"})
    /\ [](Len(sent) = linesRead - (IF inPc = "send_datagram" THEN 1 ELSE 0))

\* the first send failed and the next line was sent all the same
C5_Witness == Len(sent) = 2 /\ ~sent[1].ok

\* C6: after a failed read_datagram the datagram loop is over: no further read,
\* nothing more written by it, and main eventually returns.
C6_DatagramErrorTerminal ==
    /\ [](dgEnd = "error" => dgPc = "done")
    /\ [][dgPc = "done" => (dgPc' = "done" /\ dgRecv' = dgRecv /\ DgOut' = DgOut)]_vars
    /\ (dgEnd = "error" ~> Exited)

\* a datagram was received and written, then read_datagram failed and main
\* returned on the datagram handle
C6_Witness == dgEnd = "error" /\ Len(dgRecv) >= 1 /\ Exited /\ winner = 0

\* C7: with --unidirectional the stdin task does not exist: nothing is read from
\* local input, nothing is sent, and the stdin loop is never what ends the run.
C7_UnidirectionalNoStdin ==
    unidirectional =>
        /\ inPc = "unspawned"
        /\ linesRead = 0 /\ sent = <<>> /\ inEnd = "none"
        /\ first # "stdin"
        /\ winner \in {-1, 0, 1}

C7_Witness == unidirectional /\ ExitedBySelect

\* local input was at end-of-input at the first read and the peer delivered
\* nothing
EofAtOnce == inEnd = "eof" /\ linesRead = 0 /\ dgRecv = <<>> /\ stStreams = <<>>

\* C8: when local input is at end-of-input at once and nothing is received, the
\* stdin loop ends normally, nothing is written or sent, and main returns 0.
C8_ImmediateEof ==
    /\ [](EofAtOnce =>
            /\ ~unidirectional /\ inPc = "done"
            /\ out = <<>> /\ sent = <<>>
            /\ (Exited => exitCode = 0))
    /\ (EofAtOnce ~> (Exited /\ exitCode = 0))

C8_Witness == EofAtOnce /\ Exited /\ winner = 2 /\ first = "stdin"

\* the writes the datagram task owes for the datagrams it received
DgExpected ==
    [i \in 1..(2 * Len(dgRecv)) |->
        IF i % 2 = 1
        THEN [src |-> "datagram", id |-> (i + 1) \div 2, kind |-> "data",
              bytes |-> dgRecv[(i + 1) \div 2]]
        ELSE [src |-> "datagram", id |-> i \div 2, kind |-> "nl", bytes |-> <<NL>>]]

\* how many of them it has issued at its current position
DgIssued ==
    CASE dgPc = "write_data" -> 2 * Len(dgRecv) - 2
      [] dgPc = "write_nl" -> 2 * Len(dgRecv) - 1
      [] OTHER -> 2 * Len(dgRecv)

\* C9: what the datagram task has written is, for each datagram read_datagram
\* returned and in that order, the payload and then one newline, as far as the
\* task has got; nothing is skipped, duplicated or reordered (a write local
\* output refuses is dropped).
C9_DatagramOutput ==
    /\ IsPrefix(DgOut, DgExpected)
    /\ Len(DgOut) <= DgIssued
    /\ (stdoutOk => Len(DgOut) = DgIssued)

\* two different datagrams, both written in full
C9_Witness == Len(dgRecv) = 2 /\ dgRecv[1] # dgRecv[2] /\ Len(DgOut) = 4

\* the writes the stream task owes for streams 1..n: none for a stream that is
\* still being read or whose read failed
RECURSIVE StExpected(_)
StExpected(n) ==
    IF n = 0 THEN <<>>
    ELSE StExpected(n - 1) \o
         (IF stStreams[n].res = "ok"
          THEN << [src |-> "stream", id |-> n, kind |-> "data",
                   bytes |-> Concat(stStreams[n].chunks)],
                  [src |-> "stream", id |-> n, kind |-> "nl", bytes |-> <<NL>>] >>
          ELSE <<>>)

StIssued ==
    Len(StExpected(Len(stStreams)))
        - (CASE stPc = "write_data" -> 2 [] stPc = "write_nl" -> 1 [] OTHER -> 0)

\* C10: a stream reaches local output only after read_to_end returned it whole:
\* one message of all its chunks in order, then one newline; a stream that is
\* still being read, or whose read failed, has no byte on local output.
C10_StreamWholeMessage ==
    /\ IsPrefix(StOut, StExpected(Len(stStreams)))
    /\ Len(StOut) <= StIssued
    /\ (stdoutOk => Len(StOut) = StIssued)

\* a stream whose read failed after a chunk, then a stream of two chunks written
\* as one message
C10_Witness ==
    /\ Len(stStreams) = 2
    /\ stStreams[1].res = "err"
    /\ Len(stStreams[2].chunks) = 2
    /\ Len(StOut) = 2 /\ StOut[1].bytes = ChunkAt(1) \o ChunkAt(2)

\* b is l without its trailing white space (the line terminator included) and
\* with nothing else changed
Stripped(l, b) ==
    /\ IsPrefix(b, l)
    /\ \A i \in (Len(b) + 1)..Len(l) : IsWhitespace(l[i])
    /\ (b = <<>> \/ ~IsWhitespace(b[Len(b)]))

\* lines local input has supplied, valid UTF-8 or not
LinesSupplied == linesRead + (IF rejected = <<>> THEN 0 ELSE 1)

\* C11: every line local input supplies, text or binary, gets exactly one
\* send_datagram, and the bytes sent are the line without its trailing line
\* terminator and white space.
C11_OneDatagramPerLine ==
    /\ Len(sent) = LinesSupplied - (IF inPc = "send_datagram" THEN 1 ELSE 0)
    /\ \A i \in 1..Len(sent) : Stripped(sent[i].line, sent[i].bytes)

\* C11 as amended: every line that is valid UTF-8 gets exactly one
\* send_datagram, of the line without its trailing line terminator and white
\* space; a line that is not valid UTF-8 is not sent and ends the stdin loop.
C11_TextLinesForwarded ==
    /\ Len(sent) = linesRead - (IF inPc = "send_datagram" THEN 1 ELSE 0)
    /\ \A i \in 1..Len(sent) :
          /\ ValidUtf8(sent[i].line)
          /\ Stripped(sent[i].line, sent[i].bytes)
    /\ (rejected # <<>> =>
          /\ ~ValidUtf8(rejected)
          /\ inPc = "done" /\ inEnd = "read_error")

\* a line with leading and trailing blanks was sent with only the trailing ones
\* removed, and the next line, not valid UTF-8, ended the loop
C11_Witness ==
    /\ Len(sent) = 1
    /\ sent[1].line = <<32, 104, 32, NL>> /\ sent[1].bytes = <<32, 104>>
    /\ rejected # <<>>

\* no task exists and nothing was received, sent or written
NothingStarted ==
    /\ dgPc = "unspawned" /\ stPc = "unspawned" /\ inPc = "unspawned"
    /\ dgRecv = <<>> /\ stStreams = <<>>
    /\ linesRead = 0 /\ sent = <<>>
    /\ out = <<>>

\* C12: when create_client or connect fails, main returns a failure and no loop
\* was ever started: no read_datagram, accept_uni, send_datagram or write.
C12_StartupFailure ==
    /\ (mainPc \in {"create_client", "connect"} => NothingStarted)
    /\ (Exited /\ winner = -1 => (exitCode = 1 /\ NothingStarted /\ ~sessOpen))

\* main has returned from a failed create_client or connect
C12_Witness == Exited /\ winner = -1 /\ exitCode = 1

\* the session was established and is gone
SessionLost ==
    /\ ~sessOpen
    /\ mainPc \notin {"create_client", "connect"}
    /\ ~(Exited /\ winner = -1)

C14_OnlyOutputErrorsIgnored ==
    /\ (~stdoutOk =>
          /\ (dgPc = "done" => (dgEnd = "one_message" \/ (dgEnd = "error" /\ ~sessOpen)))
          /\ (stPc = "done" => (stEnd = "one_message" \/ (stEnd = "accept_error" /\ ~sessOpen))))
    /\ (ExitedBySelect /\ EndOf(Handles[winner + 1]) \in {"error", "accept_error"}
          => exitCode = 1)

\* writes that put at least one byte on local output
HasBytes(e) == e.bytes # <<>>
OutBytes == SelectSeq(out, HasBytes)

\* C15: on local output the bytes of a payload are followed at once by the
\* newline of the same message: no byte written by the other receive loop comes
\* between the two.
C15_OneMessagePerLine ==
    \A i \in 1..Len(OutBytes) :
        (OutBytes[i].kind = "data" /\ i < Len(OutBytes))
            => /\ OutBytes[i + 1].kind = "nl"
               /\ OutBytes[i + 1].src = OutBytes[i].src
               /\ OutBytes[i + 1].id = OutBytes[i].id

Draining == {i \in 1..Len(stStreams) : stStreams[i].res = "pending"}

\* C16: a stream is accepted only when no accepted stream is still being read,
\* so at most one stream is being drained (the one accepted last, while the
\* loop is in read_to_end), and stream messages reach output in accept order.
C16_StreamsSerial ==
    /\ [](/\ Draining = IF stPc = "read_to_end" THEN {Len(stStreams)} ELSE {}
          /\ \A i \in 1..Len(StOut) :
                /\ StOut[i].id \in 1..Len(stStreams)
                /\ stStreams[StOut[i].id].res = "ok"
                /\ \A j \in 1..(i - 1) : StOut[j].id <= StOut[i].id)
    /\ [][Len(stStreams') > Len(stStreams)
            => (stPc = "accept_uni" /\ Draining = {})]_vars

C16_Witness ==
    /\ Len(stStreams) = 2
    /\ Len(StOut) = 4
    /\ StOut[1].id = 1 /\ StOut[2].id = 1
    /\ StOut[3].id = 2 /\ StOut[4].id = 2

\* both writes of message id of a receive loop were issued and accepted
Written(src, id) ==
    /\ \E i \in 1..Len(out) : out[i].src = src /\ out[i].id = id /\ out[i].kind = "data"
    /\ \E i \in 1..Len(out) : out[i].src = src /\ out[i].id = id /\ out[i].kind = "nl"

\* C17: with --one-message a failed read_to_end sends the stream loop back to
\* accept_uni and is not the one-message condition; a receive loop ends on that
\* condition only after it received a whole message (a datagram, a stream read
\* to its end) and passed its payload and newline writes.
C17_FailedReadNotCounted ==
    /\ [](one_message =>
            /\ (stPc = "done" => stEnd \in {"one_message", "accept_error"})
            /\ (stEnd = "one_message" =>
                    /\ stStreams # <<>>
                    /\ LastStream.res = "ok"
                    /\ (stdoutOk => Written("stream", Len(stStreams))))
            /\ (dgEnd = "one_message" =>
                    /\ dgRecv # <<>>
                    /\ (stdoutOk => Written("datagram", Len(dgRecv)))))
    /\ [][(one_message /\ stPc = "read_to_end" /\ LastStream'.res = "err")
            => (stPc' = "accept_uni" /\ stEnd' = stEnd /\ first' = first
                /\ mainPc' = mainPc)]_vars

C17_Witness ==
    /\ one_message /\ stdoutOk
    /\ Len(stStreams) = 2
    /\ stStreams[1].res = "err" /\ stStreams[2].res = "ok"
    /\ ExitedBySelect /\ winner = 1 /\ stEnd = "one_message"
    /\ Written("stream", 2) /\ ~Written("stream", 1)

\* C18: main returns after a successful connect only through select_all, on the
\* handle of a loop that has ended; without --one-message a receive loop ends
\* only from its read_datagram or accept_uni await, on a failure, never after
\* the writes of a received message.
C18_ExitNeedsFinishedLoop ==
    /\ [](/\ (Exited /\ dgPc # "unspawned" =>
                /\ ExitedBySelect
                /\ AnyDone
                /\ Pc(Handles[winner + 1]) = "done")
          /\ (~one_message =>
                /\ (dgPc = "done" => dgEnd = "error")
                /\ (stPc = "done" => stEnd = "accept_error")))
    /\ [][~one_message =>
            /\ (dgPc # "done" /\ dgPc' = "done" => dgPc = "read_datagram" /\ dgRecv' = dgRecv)
            /\ (stPc # "done" /\ stPc' = "done" => stPc = "accept_uni" /\ stStreams' = stStreams)]_vars

C18_Witness ==
    /\ ~one_message /\ stdoutOk
    /\ ExitedBySelect /\ winner = 0
    /\ dgEnd = "error" /\ Len(dgRecv) = 2
    /\ Written("datagram", 2)
    /\ stPc = "accept_uni" /\ inPc = "read_line"

\* C19: a failed read_line ends the stdin loop at once and for good, nothing is
\* sent for that read or after it, and main then returns, also when the session
\* is open and both receive loops are still running.
C19_ReadFailureEndsProcess ==
    /\ [](inEnd = "read_error" => inPc = "done")
    /\ [][(inEnd # "read_error" /\ inEnd' = "read_error")
            => (inPc = "read_line" /\ sent' = sent /\ linesRead' = linesRead)]_vars
    /\ [][inEnd = "read_error" => sent' = sent]_vars
    /\ [](\A i \in 1..Len(sent) : rejected # <<>> => sent[i].line # rejected)
    /\ (inEnd = "read_error" ~> Exited)

C19_Witness ==
    /\ ExitedBySelect /\ winner = 2
    /\ inEnd = "read_error" /\ rejected # <<>>
    /\ sessOpen
    /\ dgPc = "read_datagram" /\ stPc = "accept_uni"
    /\ Len(sent) = 1 /\ sent[1].ok

\* C20: when main has returned from select_all, every payload on local output
\* is followed, later on that output, by the newline of its message.
C20_NoHalfMessageAtExit ==
    ExitedBySelect =>
        \A i \in 1..Len(out) :
            out[i].kind = "data" =>
                \E j \in (i + 1)..Len(out) :
                    /\ out[j].kind = "nl"
                    /\ out[j].src = out[i].src
                    /\ out[j].id = out[i].id

====
